---- MODULE Spec2Model ----
(* Model of the update engine of py-updater (src/updater.py): run_update and  *)
(* the functions it calls, over an abstract file system holding the live      *)
(* application directory, the version file, the backup directories and the    *)
(* temporary directory of the run.                                            *)
EXTENDS Integers, Sequences, FiniteSets, TLC

\* ---------------------------------------------------------------- bounds
MaxRuns == 2      \* runs of run_update against one application directory
MaxTime == 1      \* int(time.time()) ranges over 0..MaxTime

Times == 0..MaxTime

\* ---------------------------------------------------------------- strings
\* A Python str is a sequence of one-character strings.
Digits == <<"0", "1", "2", "3", "4", "5", "6", "7", "8", "9">>

IsDigit(c) == \E i \in 1..10 : Digits[i] = c

DigitVal(c) == (CHOOSE i \in 1..10 : Digits[i] = c) - 1

\* number of consecutive digits of s from position i on (0 when s[i] is
\* none): the distance to the first position that holds no digit
DigitRun(s, i) ==
    IF i > Len(s) THEN 0
    ELSE (CHOOSE j \in i..(Len(s) + 1) :
              /\ j > Len(s) \/ ~IsDigit(s[j])
              /\ \A k \in i..(j - 1) : IsDigit(s[k])) - i

\* int() of the n digits of s that start at position i
RECURSIVE IntOf(_, _, _)
IntOf(s, i, n) ==
    IF n = 0 THEN 0 ELSE IntOf(s, i, n - 1) * 10 + DigitVal(s[i + n - 1])

\* the optional group (?:[-+].*)?$ applied at position i: the end of the
\* string, or a newline that ends it, or a sign followed by characters of
\* which none but the last is a newline
SuffixOk(s, i) ==
    \/ i > Len(s)
    \/ i = Len(s) /\ s[i] = "\n"
    \/ s[i] \in {"-", "+"} /\ \A j \in (i + 1)..(Len(s) - 1) : s[j] # "\n"

NonSemver == <<-1, -1, -1>>

\* int() of lines 81 and 84 refuses a string of more than this many digits
\* (sys.int_info.default_max_str_digits of Python 3.11 and later) ...
IntMaxStrDigits == 4300

\* ... and raises ValueError("Exceeds the limit (4300 digits) for integer
\* string conversion"), which parse_semver does not catch
ValueError == <<"ValueError">>

\* int() raises on one of the digit runs of the lengths given
IntRaises(lens) == \E n \in lens : n > IntMaxStrDigits

\* lines 71-84.  \d is taken over the ASCII digits.  The value is the triple
\* returned, or ValueError when int() refuses one of the matched groups: the
\* groups are converted only after the pattern has matched, so a long digit
\* run in a string that does not match raises nothing
parse_semver(str) ==
    LET s  == IF Len(str) > 0 /\ str[1] = "v" THEN Tail(str) ELSE str
        n1 == DigitRun(s, 1)
        d1 == n1 + 1
        n2 == DigitRun(s, d1 + 1)
        d2 == d1 + n2 + 1
        n3 == DigitRun(s, d2 + 1)
        e3 == d2 + n3 + 1
        two == n1 > 0 /\ d1 <= Len(s) /\ s[d1] = "." /\ n2 > 0
    IN  IF two /\ d2 <= Len(s) /\ s[d2] = "." /\ n3 > 0 /\ SuffixOk(s, e3)
        THEN IF IntRaises({n1, n2, n3}) THEN ValueError
             ELSE <<IntOf(s, 1, n1), IntOf(s, d1 + 1, n2), IntOf(s, d2 + 1, n3)>>
        ELSE IF two /\ SuffixOk(s, d2)
        THEN IF IntRaises({n1, n2}) THEN ValueError
             ELSE <<IntOf(s, 1, n1), IntOf(s, d1 + 1, n2), 0>>
        ELSE NonSemver

\* Python's ordering of two 3-tuples of integers
TupleLess(p, q) ==
    \/ p[1] < q[1]
    \/ p[1] = q[1] /\ p[2] < q[2]
    \/ p[1] = q[1] /\ p[2] = q[2] /\ p[3] < q[3]

\* mutant: equal versions are reported as smaller
compare_versions_NoEqual(a, b) ==
    LET pa == parse_semver(a)
        pb == parse_semver(b)
    IN  IF TupleLess(pb, pa) THEN 1 ELSE -1

\* lines 86-89; a ValueError of parse_semver passes through
compare_versions(a, b) ==
    LET pa == parse_semver(a)
        pb == parse_semver(b)
    IN  IF pa = ValueError \/ pb = ValueError THEN ValueError
        ELSE (IF TupleLess(pb, pa) THEN 1 ELSE 0) - (IF TupleLess(pa, pb) THEN 1 ELSE 0)

\* str.lstrip("v")
RECURSIVE LStripV(_)
LStripV(s) == IF Len(s) > 0 /\ s[1] = "v" THEN LStripV(Tail(s)) ELSE s

\* ---------------------------------------------------------------- releases
AssetName  == "app.zip"          \* asset_pattern.format(...)
ShaName    == "app.zip.sha256"   \* asset_name + ".sha256"
OtherName  == "notes.txt"

T100  == <<"1", ".", "0", ".", "0">>
T120  == <<"1", ".", "2", ".", "0">>
Tv130 == <<"v", "1", ".", "3", ".", "0">>
T090  == <<"0", ".", "9", ".", "0">>
T200  == <<"2", ".", "0", ".", "0">>
T14b  == <<"1", ".", "4", "-", "b">>
Tjunk == <<"x">>
T000  == <<"0", ".", "0", ".", "0">>
Tvv123 == <<"v", "v", "1", ".", "2", ".", "3">>

\* assets: the names of the release's assets; urls: the names of those that
\* carry a browser_download_url
Rel(t, d, p, as, c) ==
    [tag_name |-> t, draft |-> d, prerelease |-> p, assets |-> as, urls |-> as,
     content |-> c]

\* release records of the feed
R120   == Rel(T120,  FALSE, FALSE, {AssetName, ShaName}, "cA")
Rv130  == Rel(Tv130, FALSE, FALSE, {AssetName},          "cB")
R090   == Rel(T090,  FALSE, FALSE, {AssetName, ShaName}, "cB")
R100   == Rel(T100,  FALSE, FALSE, {AssetName},          "cA")
R200d  == Rel(T200,  TRUE,  FALSE, {AssetName},          "cB")
R14b   == Rel(T14b,  FALSE, TRUE,  {AssetName, ShaName}, "cB")
R120na == Rel(T120,  FALSE, FALSE, {OtherName},          "cA")
Rjunk  == Rel(Tjunk, FALSE, FALSE, {AssetName},          "cA")
Rnotag == Rel(<<>>,  FALSE, FALSE, {AssetName},          "cA")
Rvv    == Rel(Tvv123, FALSE, FALSE, {AssetName},         "cB")
\* the companion is listed without a browser_download_url
R120nu == [R120 EXCEPT !.urls = {AssetName}]
\* no asset has a browser_download_url
R120n0 == [R120 EXCEPT !.urls = {}]

\* answers of the releases endpoint the runs are checked against
Feeds ==
    { <<>>,
      <<R200d>>,
      <<R14b, R200d>>,
      <<R100, R090>>,
      <<R090>>,
      <<R100, R120, R090>>,
      <<R120, Rv130>>,
      <<R14b, R120>>,
      <<R120na, R100>>,
      <<Rjunk>>,
      <<Rnotag, Rjunk>>,
      <<Rvv>>,
      <<R120nu>>,
      <<R120n0>> }

NoRelease == [tag_name |-> <<>>, draft |-> TRUE, prerelease |-> TRUE,
              assets |-> {}, urls |-> {}, content |-> "none"]

\* key of the sort: parse_semver(r.get("tag_name") or "")
SortKey(r) == parse_semver(r.tag_name)

IsCandidate(r, include_prereleases) ==
    ~r.draft /\ (include_prereleases \/ ~r.prerelease)

\* mutant: the candidates are not sorted
get_latest_release_NoSort(releases, include_prereleases) ==
    LET candidates == SelectSeq(releases, LAMBDA r : IsCandidate(r, include_prereleases))
    IN  IF candidates = <<>> THEN NoRelease ELSE candidates[1]

\* list.sort(reverse=True) is stable: candidates[0] is the first candidate of
\* the list whose key no other candidate exceeds
get_latest_release(releases, include_prereleases) ==
    LET candidates == SelectSeq(releases, LAMBDA r : IsCandidate(r, include_prereleases))
    IN  IF candidates = <<>> THEN NoRelease
        ELSE candidates[CHOOSE i \in 1..Len(candidates) :
                 /\ \A j \in 1..Len(candidates) :
                        ~TupleLess(SortKey(candidates[i]), SortKey(candidates[j]))
                 /\ \A j \in 1..(i - 1) :
                        TupleLess(SortKey(candidates[j]), SortKey(candidates[i]))]

find_asset(release, asset_name) == asset_name \in release.assets

\* ---------------------------------------------------------------- digests
GoodDigest == "d1"     \* sha256 of the artifact the release published
BadDigest  == "d2"     \* sha256 of any other byte sequence

OtherDigest == "dx"    \* 64 hex characters that are the digest of nothing at hand

\* A descriptor is a sequence of words separated by white space.  A word is
\* text without a run of 64 hex characters ("text", "hex<64"), or it has such
\* a run ("hex64"): digest and upper are the first 64 hex characters of the
\* word's first such run and whether they are written in upper case, holds
\* are the digests that occur somewhere in the word.
Hex(d, u) == [kind |-> "hex64", digest |-> d, upper |-> u, holds |-> {d}]
Text      == [kind |-> "text",  digest |-> "",  upper |-> FALSE, holds |-> {}]
ShortHex  == [kind |-> "hex<64", digest |-> "", upper |-> FALSE, holds |-> {}]

\* a run of more than 64 hex characters that ends with the digest d: its first
\* 64 characters are other hex characters followed by the head of d
LongHex(d, u) == [kind |-> "hex64", digest |-> OtherDigest, upper |-> u, holds |-> {d}]

\* a string of 64 hex characters: the digest it spells and its case
HexString(d, u) == [digest |-> d, upper |-> u]

\* str.lower() of a string of hex characters
Lower(h) == HexString(h.digest, FALSE)

Descriptors ==
    { <<Hex(GoodDigest, FALSE), Text>>,
      <<Text, Hex(GoodDigest, TRUE)>>,
      <<Hex(BadDigest, FALSE), Text>>,
      <<Hex(BadDigest, TRUE), Hex(GoodDigest, FALSE)>>,
      <<ShortHex, Text>>,
      <<>> }

\* re.search(r"([A-Fa-f0-9]{64})", txt): index of the first match, 0 if none
FirstHex(txt) ==
    IF \E i \in 1..Len(txt) : txt[i].kind = "hex64"
    THEN CHOOSE i \in 1..Len(txt) :
             /\ txt[i].kind = "hex64"
             /\ \A j \in 1..(i - 1) : txt[j].kind # "hex64"
    ELSE 0

\* lines 122-127: hashlib's hexdigest() is written in lower case
sha256_file(file) == HexString(file.digest, FALSE)

\* m.group(1) of line 137
Group1(sha_file) ==
    HexString(sha_file[FirstHex(sha_file)].digest, sha_file[FirstHex(sha_file)].upper)

\* mutant: the token is compared as written, without lower()
verify_sha256_NoLower(sha_file, asset_file) ==
    LET m == FirstHex(sha_file)
    IN  IF m = 0 THEN "format"
        ELSE IF sha256_file(asset_file) # Group1(sha_file) THEN "mismatch"
        ELSE "ok"

\* "ok" for return True, "format" and "mismatch" for the two ValueErrors
verify_sha256_from_file(sha_file, asset_file) ==
    LET m == FirstHex(sha_file)
    IN  IF m = 0 THEN "format"
        ELSE IF sha256_file(asset_file) # Lower(Group1(sha_file)) THEN "mismatch"
        ELSE "ok"

\* the ValueError of line 139 or of line 143, with the digests its message
\* carries
VerifyError(sha_file, asset_file) ==
    CASE verify_sha256_from_file(sha_file, asset_file) = "format" ->
            [kind |-> "ValueError", msg |-> "Invalid sha256 file format"]
      [] verify_sha256_from_file(sha_file, asset_file) = "mismatch" ->
            [kind |-> "ValueError", msg |-> "SHA-256 mismatch",
             expected |-> Lower(Group1(sha_file)),
             actual |-> sha256_file(asset_file)]
      [] OTHER -> [kind |-> "none"]

\* ---------------------------------------------------------------- file system
Absent   == "absent"     \* the path does not exist
Partial  == "partial"    \* a directory holding part of a tree
Contents == {Absent, Partial, "c0", "cA", "cB"}

\* A JSON object is the set of its members, each a <<key, value>> pair.
EmptyObj == {}
Member(k, v) == <<k, v>>
HasKey(obj, k) == \E m \in obj : m[1] = k
Get(obj, k) == (CHOOSE m \in obj : m[1] = k)[2]

NoFile   == [exists |-> FALSE, data |-> EmptyObj]
JsonFile(d) == [exists |-> TRUE, data |-> d]
Channel  == <<"s">>

NoZip    == [digest |-> "", valid |-> FALSE, content |-> Absent]
NoBackup == -1           \* backup_dir = None

\* read_json(path, default={}) or {}
read_json(file) == IF file.exists THEN file.data ELSE EmptyObj

\* vdata.get("version", "0.0.0")
CurrentVersion(vd) == IF HasKey(vd, "version") THEN Get(vd, "version") ELSE T000

\* release.get("tag_name") or "0.0.0"
TagOf(rel) == IF rel.tag_name = <<>> THEN T000 ELSE rel.tag_name

\* mutant: the new record holds the version and nothing else
NewVdata_Replace(vd, tag) == {Member("version", LStripV(tag))}

\* new_vdata = dict(vdata); new_vdata["version"] = tag.lstrip("v")
NewVdata(vd, tag) ==
    {m \in vd : m[1] # "version"} \cup {Member("version", LStripV(tag))}

VARIABLES
    pc,           \* position of the run inside run_update
    result,       \* "none" while running, "True", "False", "raised"
    outcome,      \* which exit of run_update was taken
    runs,         \* runs started so far
    now,          \* int(time.time()) at the last reading of the clock
    appDir,       \* content of app_dir
    versionFile,  \* content of version_file
    backups,      \* content of app_dir.backup-<t>, for each t
    nested,       \* content of app_dir.backup-<t>/<basename of app_dir>
    tmpDir,       \* whether tmp_dir exists
    zipFile,      \* tmp_dir/<asset_name>
    shaFile,      \* tmp_dir/<asset_name>.sha256, <<>> when not downloaded
    shaLoaded,    \* whether the descriptor was downloaded
    finalStage,   \* content of tmp_dir/final
    release,      \* the release chosen by get_latest_release
    vdata,        \* the record read from version_file at the start
    allow_downgrade,
    dry_run,
    restart_cmd,
    swap_backup,  \* backup_dir inside safe_swap
    backup_dir,   \* backup_dir of run_update
    swapped,      \* whether this run has moved the staged tree to app_dir
    app0,         \* content of app_dir when the run began
    prev,         \* what the previous run installed, and under which flag
    error,        \* the exception that left run_update, NoError when none
    fallback,     \* whether the handler of OSError (line 294) was entered
    call,         \* a call of one of the helper functions and what it returned
    running,      \* UpdaterUI.running
    busy,         \* whether _set_busy(True) is in force (Check, Install, Close disabled)
    window,       \* "open" until master.destroy()
    guiPc,        \* position of the Tk thread: "idle" or inside _pump_stdout
    proc,         \* UpdaterUI.proc: 0 for None, else the number of the subprocess
    procState,    \* state of each updater subprocess
    pipe,         \* lines each subprocess has written and the reader has not read
    written,      \* number of lines each subprocess has written
    reader,       \* position of the reader thread of each subprocess
    relaunch,     \* of each subprocess: "due" while it may relaunch the application,
                  \* "open" while the relaunched application holds its pipe
    stdout_q,     \* UpdaterUI.stdout_q
    logText,      \* the lines of the log widget
    timers        \* pending master.after callbacks of _pump_stdout

vars == <<pc, result, outcome, runs, now, appDir, versionFile, backups,
          nested, tmpDir, zipFile, shaFile, shaLoaded, finalStage, release, vdata,
          allow_downgrade, dry_run, restart_cmd, swap_backup, backup_dir,
          swapped, app0, prev, error, fallback, call, running, busy, window, guiPc,
          proc, procState, pipe, written, reader, relaunch, stdout_q, logText,
          timers>>

fsVars    == <<appDir, versionFile, backups, nested>>
tmpVars   == <<tmpDir, zipFile, shaFile, shaLoaded, finalStage>>
inputVars == <<release, vdata, allow_downgrade, dry_run, restart_cmd>>
snapVars  == <<app0, prev>>
swapVars  == <<swap_backup, backup_dir, swapped, fallback>>
guiVars   == <<running, busy, window, guiPc, proc, procState, pipe, written,
               reader, relaunch, stdout_q, logText, timers>>
auxVars   == <<call, guiVars>>

\* ---------------------------------------------------------------- UpdaterUI
MaxProcs  == 2     \* subprocesses one UpdaterUI starts
MaxLines  == 1     \* lines one subprocess writes
MaxLog    == 3     \* lines the handlers write to the log
MaxTimers == 3     \* pending callbacks of _pump_stdout

Procs == 1..MaxProcs

\* lines 41-47: the state of an UpdaterUI after its construction, whose last
\* step is the first call of _pump_stdout: nothing runs, the buttons are
\* enabled and one callback of the pump is pending (line 162)
NoGui ==
    /\ running = FALSE
    /\ busy = FALSE
    /\ window = "open"
    /\ guiPc = "idle"
    /\ proc = 0
    /\ procState = [i \in Procs |-> "unborn"]
    /\ pipe = [i \in Procs |-> <<>>]
    /\ written = [i \in Procs |-> 0]
    /\ reader = [i \in Procs |-> "none"]
    /\ relaunch = [i \in Procs |-> "none"]
    /\ stdout_q = <<>>
    /\ logText = <<>>
    /\ timers = 1

\* no previous run, or one that did not return True
NoPrev == [installed |-> FALSE, release |-> NoRelease, allow_downgrade |-> FALSE]

NoError == [kind |-> "none", asset |-> "", names |-> {}]
NoCall  == [fn |-> "none"]

InitVersionFiles ==
    { NoFile,
      JsonFile({Member("version", T100), Member("channel", Channel)}),
      JsonFile({Member("channel", Channel)}) }

Init ==
    /\ pc = "idle"
    /\ result = "none"
    /\ outcome = "none"
    /\ runs = 0
    /\ now = 0
    /\ appDir \in {"c0", Absent}
    /\ versionFile \in InitVersionFiles
    /\ backups = [t \in Times |-> Absent]
    /\ nested = [t \in Times |-> Absent]
    /\ tmpDir = FALSE
    /\ zipFile = NoZip
    /\ shaFile = <<>>
    /\ shaLoaded = FALSE
    /\ finalStage = Absent
    /\ release = NoRelease
    /\ vdata = EmptyObj
    /\ allow_downgrade = FALSE
    /\ dry_run = FALSE
    /\ restart_cmd = FALSE
    /\ swap_backup = NoBackup
    /\ backup_dir = NoBackup
    /\ swapped = FALSE
    /\ app0 = appDir
    /\ prev = NoPrev
    /\ error = NoError
    /\ fallback = FALSE
    /\ call = NoCall
    /\ NoGui

\* ---------------------------------------------------------------- run_update
\* mutant: allow_downgrade is ignored
SkipReason_NoDowngrade(rel, vd, allow) ==
    LET cmp == compare_versions(TagOf(rel), CurrentVersion(vd))
    IN  IF rel = NoRelease THEN "no_release"
        ELSE IF cmp < 0 THEN "older"
        ELSE IF cmp = 0 THEN "uptodate"
        ELSE "newer"

\* the three conditions of lines 223-236 under which the run returns early
SkipReason(rel, vd, allow) ==
    LET cmp == compare_versions(TagOf(rel), CurrentVersion(vd))
    IN  IF rel = NoRelease THEN "no_release"
        ELSE IF cmp < 0 /\ ~allow THEN "older"
        ELSE IF cmp = 0 THEN "uptodate"
        ELSE "newer"

\* mutant: dry_run is not looked at
Evaluate_NoDry(rel, vd, allow, dry, answered) ==
    IF ~answered THEN "api_error"
    ELSE IF SkipReason(rel, vd, allow) # "newer" THEN SkipReason(rel, vd, allow)
    ELSE IF ~find_asset(rel, AssetName) THEN "asset_missing"
    ELSE "proceed"

\* lines 211-251: everything up to tempfile.mkdtemp
Evaluate(rel, vd, allow, dry, answered) ==
    IF ~answered THEN "api_error"
    ELSE IF SkipReason(rel, vd, allow) # "newer" THEN SkipReason(rel, vd, allow)
    ELSE IF ~find_asset(rel, AssetName) THEN "asset_missing"
    ELSE IF dry THEN "dry_run"
    ELSE "proceed"

\* mutant: the message does not list the names of the release's assets
AssetNotFound_NoNames(rel, asset_name) ==
    [kind |-> "FileNotFoundError", asset |-> asset_name, names |-> {}]

\* lines 240-241: FileNotFoundError("Asset '<asset_name>' not found in release
\* assets: <names>"), names being the name of every asset of the release
AssetNotFound(rel, asset_name) ==
    [kind |-> "FileNotFoundError", asset |-> asset_name, names |-> rel.assets]

\* line 221: whatever get_latest_release raises (HTTPError, URLError, ...)
ApiError == [kind |-> "HTTPError", asset |-> "", names |-> {}]

\* line 253: what tempfile.mkdtemp raises when the temporary directory is full
\* or not writable; the call is outside the try block
MkdtempErrors ==
    { [kind |-> k, asset |-> "", names |-> {}] :
          k \in {"OSError", "PermissionError", "FileNotFoundError"} }

\* lines 211-255: from the call of run_update to the creation of tmp_dir
Start ==
    /\ pc = "idle"
    /\ runs < MaxRuns
    /\ \E vd \in {read_json(versionFile)} :
       \E releases \in Feeds, prereleases \in BOOLEAN, answered \in BOOLEAN :
       \E rel \in {IF answered THEN get_latest_release(releases, prereleases)
                                ELSE NoRelease} :
       \E allow \in BOOLEAN, dry \in BOOLEAN, restart \in BOOLEAN :
       \E ev \in {Evaluate(rel, vd, allow, dry, answered)} :
       \E oc \in (IF ev = "proceed" THEN {"proceed", "mkdtemp_error"} ELSE {ev}) :
            /\ release' = rel
            /\ vdata' = vd
            /\ allow_downgrade' = allow
            /\ dry_run' = dry
            /\ restart_cmd' = restart
            /\ outcome' = oc
            /\ result' = CASE oc = "proceed" -> "none"
                           [] oc \in {"api_error", "asset_missing", "mkdtemp_error"}
                                -> "raised"
                           [] OTHER -> "False"
            /\ pc' = IF oc = "proceed" THEN "download" ELSE "return"
            /\ tmpDir' = (oc = "proceed")
            /\ error' \in CASE oc = "asset_missing" -> {AssetNotFound(rel, AssetName)}
                             [] oc = "api_error" -> {ApiError}
                             [] oc = "mkdtemp_error" -> MkdtempErrors
                             [] OTHER -> {NoError}
    /\ runs' = runs + 1
    /\ zipFile' = NoZip
    /\ shaFile' = <<>>
    /\ shaLoaded' = FALSE
    /\ finalStage' = Absent
    /\ swap_backup' = NoBackup
    /\ backup_dir' = NoBackup
    /\ swapped' = FALSE
    /\ fallback' = FALSE
    /\ app0' = appDir
    /\ UNCHANGED <<now, fsVars, prev, auxVars>>

\* line 243: asset_url is the artifact's browser_download_url, None when the
\* asset carries none
HasAssetUrl(rel) == AssetName \in rel.urls

\* lines 244-245: sha_url is the companion's browser_download_url; it is None
\* when the release lists no companion and when the companion carries no URL,
\* and lines 255 and 261 test sha_url
HasShaUrl(rel) == find_asset(rel, ShaName) /\ ShaName \in rel.urls

\* lines 328-335 after an exception inside the try block
Fail(why) ==
    /\ outcome' = why
    /\ result' = "False"
    /\ pc' = "finally"

\* http_download, lines 110-116: the file is opened for writing at its final
\* path and filled chunk by chunk; a transfer that breaks leaves what was
\* written so far, which is no archive and has another digest
TruncatedZip == [digest |-> BadDigest, valid |-> FALSE, content |-> Partial]

\* lines 258-259: http_download of the artifact; Request or urlopen raises
\* before the file is opened (as they do for a URL of None), or the transfer
\* breaks and leaves a truncated file
Download ==
    /\ pc = "download"
    /\ \/ /\ HasAssetUrl(release)
          /\ \E d \in {GoodDigest, BadDigest}, v \in BOOLEAN :
                zipFile' = [digest |-> d, valid |-> v, content |-> release.content]
          /\ pc' = IF HasShaUrl(release) THEN "verify" ELSE "extract"
          /\ UNCHANGED <<result, outcome>>
       \/ /\ Fail("download_error")
          /\ zipFile' \in IF HasAssetUrl(release) THEN {NoZip, TruncatedZip}
                                                   ELSE {NoZip}
    /\ UNCHANGED <<runs, now, fsVars, tmpDir, shaFile, shaLoaded, finalStage,
                   inputVars, swapVars, snapVars, error, auxVars>>

\* lines 261-265: download the descriptor and verify the artifact against it
Verify ==
    /\ pc = "verify"
    /\ \/ \E txt \in Descriptors :
            /\ shaFile' = txt
            /\ shaLoaded' = TRUE
            /\ LET v == verify_sha256_from_file(txt, zipFile)
               IN  IF v = "ok"
                   THEN pc' = "extract" /\ UNCHANGED <<result, outcome>>
                   ELSE Fail(IF v = "format" THEN "digest_format" ELSE "digest_mismatch")
       \/ /\ Fail("download_error")            \* nothing, or a truncated file
          /\ shaFile' \in {<<>>, <<ShortHex>>}
          /\ UNCHANGED shaLoaded
    /\ UNCHANGED <<runs, now, fsVars, tmpDir, zipFile, finalStage,
                   inputVars, swapVars, snapVars, error, auxVars>>

\* mutant: the archive is unpacked over app_dir instead of tmp_dir/staging
Extract_InPlace ==
    /\ pc = "extract"
    /\ \/ /\ zipFile.valid
          /\ finalStage' = zipFile.content
          /\ pc' = "swap"
          /\ UNCHANGED <<result, outcome, appDir>>
       \/ /\ ~zipFile.valid
          /\ Fail("bad_archive")
          /\ UNCHANGED <<finalStage, appDir>>
       \/ /\ zipFile.valid
          /\ Fail("stage_error")
          /\ finalStage' \in {Absent, Partial}
          /\ appDir' = Partial
    /\ UNCHANGED <<runs, now, versionFile, backups, nested, tmpDir, zipFile, shaFile,
                   shaLoaded, inputVars, swapVars, snapVars, error, auxVars>>

\* lines 269-287: unzip_to, choice of the root, copytree into tmp_dir/final
Extract ==
    /\ pc = "extract"
    /\ \/ /\ zipFile.valid
          /\ finalStage' = zipFile.content
          /\ pc' = "swap"
          /\ UNCHANGED <<result, outcome>>
       \/ /\ ~zipFile.valid
          /\ Fail("bad_archive")
          /\ UNCHANGED finalStage
       \/ /\ zipFile.valid
          /\ Fail("stage_error")
          /\ finalStage' \in {Absent, Partial}
    /\ UNCHANGED <<runs, now, fsVars, tmpDir, zipFile, shaFile, shaLoaded,
                   inputVars, swapVars, snapVars, error, auxVars>>

\* shutil.rmtree(dir, ignore_errors=True): everything is removed, or part, or
\* nothing when the entries cannot be unlinked
RmtreeIgnoreErrors(dir) == IF dir = Absent THEN {Absent} ELSE {Absent, Partial, dir}

\* shutil.rmtree(backup_dir, ignore_errors=True) on app_dir.backup-<t>: what it
\* leaves of the directory and of the tree nested in it.  The directory goes
\* only when everything in it went.
RmtreeBackup(t) ==
    IF backups[t] = Absent
    THEN {<<Absent, Absent>>}
    ELSE {<<Absent, Absent>>} \cup
         ({Partial, backups[t]} \X RmtreeIgnoreErrors(nested[t]))

\* safe_swap, lines 179-185: name the backup after the clock, remove a stale
\* directory of that name as far as it can be removed, rename app_dir to it.
\* os.rename onto a directory that is not empty raises OSError.
SafeSwapBackup ==
    /\ pc = "swap"
    /\ \E t \in now..MaxTime : \E left \in RmtreeBackup(t) :
        LET cleared == [backups EXCEPT ![t] = left[1]]
        IN  /\ now' = t
            /\ swap_backup' = t
            /\ nested' = [nested EXCEPT ![t] = left[2]]
            /\ \/ /\ appDir = Absent
                  /\ backups' = cleared
                  /\ pc' = "swap_rename"
                  /\ UNCHANGED appDir
               \/ /\ appDir # Absent
                  /\ left[1] = Absent
                  /\ backups' = [cleared EXCEPT ![t] = appDir]
                  /\ appDir' = Absent
                  /\ pc' = "swap_rename"
               \/ /\ appDir # Absent          \* os.rename raises OSError
                  /\ backups' = cleared
                  /\ pc' = "fallback"
                  /\ UNCHANGED appDir
            /\ fallback' = (pc' = "fallback")
    /\ UNCHANGED <<result, outcome, runs, versionFile, tmpVars,
                   inputVars, backup_dir, swapped, snapVars, error, auxVars>>

\* safe_swap, lines 186-187: rename the staged tree to app_dir, return backup_dir
SafeSwapRename ==
    /\ pc = "swap_rename"
    /\ \/ /\ appDir' = finalStage
          /\ finalStage' = Absent
          /\ backup_dir' = swap_backup
          /\ swapped' = TRUE
          /\ pc' = "persist"
          /\ UNCHANGED fallback
       \/ /\ pc' = "fallback"                 \* os.rename raises OSError
          /\ fallback' = TRUE
          /\ finalStage' \in {finalStage, Absent}
          /\ UNCHANGED <<appDir, backup_dir, swapped>>
    /\ UNCHANGED <<result, outcome, runs, now, versionFile, backups, nested,
                   tmpDir, zipFile, shaFile, shaLoaded, inputVars, swap_backup,
                   snapVars, error, auxVars>>

\* mutant: app_dir is removed instead of being moved to the backup
FallbackBackup_NoBackup ==
    /\ pc = "fallback"
    /\ \/ /\ finalStage = Absent              \* else: raise
          /\ Fail("swap_error")
          /\ UNCHANGED <<now, appDir, backups, nested, backup_dir>>
       \/ /\ finalStage # Absent
          /\ appDir = Absent
          /\ pc' = "fallback_move"
          /\ UNCHANGED <<result, outcome, now, appDir, backups, nested, backup_dir>>
       \/ /\ finalStage # Absent
          /\ appDir # Absent
          /\ \E t \in now..MaxTime :
               /\ now' = t
               /\ backup_dir' = t
               /\ IF backups[t] = Absent
                  THEN /\ UNCHANGED nested
                       /\ \/ /\ backups' = backups
                             /\ appDir' = Absent
                             /\ pc' = "fallback_move"
                             /\ UNCHANGED <<result, outcome>>
                          \/ /\ \E b \in {Absent, Partial} :   \* the copy fails
                                  backups' = [backups EXCEPT ![t] = b]
                             /\ Fail("swap_error")
                             /\ UNCHANGED appDir
                          \/ /\ backups' = [backups EXCEPT ![t] = appDir]
                             /\ appDir' \in {Partial, appDir}     \* the delete fails
                             /\ Fail("swap_error")
                  ELSE /\ UNCHANGED backups
                       /\ \/ /\ nested[t] # Absent      \* Destination path already exists
                             /\ Fail("swap_error")
                             /\ UNCHANGED <<appDir, nested>>
                          \/ /\ nested[t] = Absent
                             /\ nested' = nested
                             /\ appDir' = Absent
                             /\ pc' = "fallback_move"
                             /\ UNCHANGED <<result, outcome>>
                          \/ /\ nested[t] = Absent
                             /\ \E b \in {Absent, Partial} :   \* the copy fails
                                  nested' = [nested EXCEPT ![t] = b]
                             /\ Fail("swap_error")
                             /\ UNCHANGED appDir
                          \/ /\ nested[t] = Absent
                             /\ nested' = [nested EXCEPT ![t] = appDir]
                             /\ appDir' \in {Partial, appDir}     \* the delete fails
                             /\ Fail("swap_error")
    /\ UNCHANGED <<runs, versionFile, tmpVars, inputVars,
                   swap_backup, swapped, fallback, snapVars, error, auxVars>>

\* lines 294-304, first half: the handler of OSError up to
\* shutil.move(app_dir, backup_dir).  shutil.move renames app_dir to the new
\* name, or copies it there and removes it (the removal may fail on any entry).
\* When a directory of the new name exists, app_dir is moved into it, under its
\* own base name, and shutil.Error is raised when that path exists already.
FallbackBackup ==
    /\ pc = "fallback"
    /\ \/ /\ finalStage = Absent              \* else: raise
          /\ Fail("swap_error")
          /\ UNCHANGED <<now, appDir, backups, nested, backup_dir>>
       \/ /\ finalStage # Absent
          /\ appDir = Absent
          /\ pc' = "fallback_move"
          /\ UNCHANGED <<result, outcome, now, appDir, backups, nested, backup_dir>>
       \/ /\ finalStage # Absent
          /\ appDir # Absent
          /\ \E t \in now..MaxTime :
               /\ now' = t
               /\ backup_dir' = t
               /\ IF backups[t] = Absent
                  THEN /\ UNCHANGED nested
                       /\ \/ /\ backups' = [backups EXCEPT ![t] = appDir]
                             /\ appDir' = Absent
                             /\ pc' = "fallback_move"
                             /\ UNCHANGED <<result, outcome>>
                          \/ /\ \E b \in {Absent, Partial} :   \* the copy fails
                                  backups' = [backups EXCEPT ![t] = b]
                             /\ Fail("swap_error")
                             /\ UNCHANGED appDir
                          \/ /\ backups' = [backups EXCEPT ![t] = appDir]
                             /\ appDir' \in {Partial, appDir}     \* the delete fails
                             /\ Fail("swap_error")
                  ELSE /\ UNCHANGED backups
                       /\ \/ /\ nested[t] # Absent      \* Destination path already exists
                             /\ Fail("swap_error")
                             /\ UNCHANGED <<appDir, nested>>
                          \/ /\ nested[t] = Absent
                             /\ nested' = [nested EXCEPT ![t] = appDir]
                             /\ appDir' = Absent
                             /\ pc' = "fallback_move"
                             /\ UNCHANGED <<result, outcome>>
                          \/ /\ nested[t] = Absent
                             /\ \E b \in {Absent, Partial} :   \* the copy fails
                                  nested' = [nested EXCEPT ![t] = b]
                             /\ Fail("swap_error")
                             /\ UNCHANGED appDir
                          \/ /\ nested[t] = Absent
                             /\ nested' = [nested EXCEPT ![t] = appDir]
                             /\ appDir' \in {Partial, appDir}     \* the delete fails
                             /\ Fail("swap_error")
    /\ UNCHANGED <<runs, versionFile, tmpVars, inputVars,
                   swap_backup, swapped, fallback, snapVars, error, auxVars>>

\* mutant: a failure of the move is swallowed and the run goes on
FallbackMove_Swallow ==
    /\ pc = "fallback_move"
    /\ \/ /\ appDir' = finalStage
          /\ finalStage' = Absent
          /\ swapped' = TRUE
          /\ pc' = "persist"
       \/ /\ appDir' \in {Absent, Partial}
          /\ pc' = "persist"
          /\ UNCHANGED <<finalStage, swapped>>
       \/ /\ appDir' = finalStage
          /\ finalStage' \in {Partial, finalStage}
          /\ pc' = "persist"
          /\ UNCHANGED swapped
    /\ UNCHANGED <<result, outcome, runs, now, versionFile, backups, nested, tmpDir,
                   zipFile, shaFile, shaLoaded, inputVars, swap_backup,
                   backup_dir, fallback, snapVars, error, auxVars>>

\* line 302: shutil.move(final_stage, app_dir), which renames or, across
\* file systems, copies the tree to app_dir and then removes the source with
\* an rmtree that raises
FallbackMove ==
    /\ pc = "fallback_move"
    /\ \/ /\ appDir' = finalStage
          /\ finalStage' = Absent
          /\ swapped' = TRUE
          /\ pc' = "persist"
          /\ UNCHANGED <<result, outcome>>
       \/ /\ appDir' \in {Absent, Partial}    \* the copy fails
          /\ Fail("swap_error")
          /\ UNCHANGED <<finalStage, swapped>>
       \/ /\ appDir' = finalStage              \* the copy is complete and the
          /\ finalStage' \in {Partial, finalStage}   \* removal of the source fails
          /\ Fail("swap_error")
          /\ UNCHANGED swapped
    /\ UNCHANGED <<runs, now, versionFile, backups, nested, tmpDir, zipFile,
                   shaFile, shaLoaded, inputVars, swap_backup, backup_dir,
                   fallback, snapVars, error, auxVars>>

\* mutant: a failing write of the version file is swallowed
Persist_Swallow ==
    /\ pc = "persist"
    /\ pc' = "clean"
    /\ versionFile' \in {versionFile, JsonFile(NewVdata(vdata, TagOf(release)))}
    /\ UNCHANGED <<result, outcome, runs, now, appDir, backups, nested, tmpVars,
                   inputVars, swapVars, snapVars, error, auxVars>>

\* lines 306-310: write_json_atomic(version_file, new_vdata)
Persist ==
    /\ pc = "persist"
    /\ \/ /\ versionFile' = JsonFile(NewVdata(vdata, TagOf(release)))
          /\ pc' = "clean"
          /\ UNCHANGED <<result, outcome>>
       \/ /\ Fail("persist_error")
          /\ UNCHANGED versionFile
    /\ UNCHANGED <<runs, now, appDir, backups, nested, tmpVars, inputVars, swapVars,
                   snapVars, error, auxVars>>

\* lines 312-314: remove the backup the run knows of, as far as
\* shutil.rmtree(backup_dir, ignore_errors=True) can remove it
CleanBackup ==
    /\ pc = "clean"
    /\ IF backup_dir # NoBackup
       THEN \E left \in RmtreeBackup(backup_dir) :
               /\ backups' = [backups EXCEPT ![backup_dir] = left[1]]
               /\ nested' = [nested EXCEPT ![backup_dir] = left[2]]
       ELSE UNCHANGED <<backups, nested>>
    /\ pc' = "restart"
    /\ UNCHANGED <<result, outcome, runs, now, appDir, versionFile,
                   tmpVars, inputVars, swapVars, snapVars, error, auxVars>>

\* lines 316-326: the optional relaunch, then return True
Restart ==
    /\ pc = "restart"
    /\ \/ /\ outcome' = "installed"
          /\ result' = "True"
          /\ pc' = "finally"
       \/ /\ restart_cmd                      \* spawnl or fork raises
          /\ Fail("restart_error")
    /\ UNCHANGED <<runs, now, fsVars, tmpVars, inputVars, swapVars,
                   snapVars, error, auxVars>>

\* what shutil.rmtree(tmp_dir, ignore_errors=True) can leave of tmp_dir: the
\* removal of any entry can fail (a file still open on Windows, a directory
\* made read-only by the archive, a file system error), the failure is
\* skipped and the removal goes on, so tmp_dir is gone with all it held or
\* stays with any part of it
RmtreeTmp ==
    { [dir |-> FALSE, zip |-> NoZip, sha |-> <<>>, final |-> Absent] }
    \cup [dir : {TRUE}, zip : {zipFile, NoZip}, sha : {shaFile, <<>>},
          final : RmtreeIgnoreErrors(finalStage)]

\* tmp_dir after a removal that left the record given
RemoveTmp(left) ==
    /\ tmpDir' = left.dir
    /\ zipFile' = left.zip
    /\ shaFile' = left.sha
    /\ shaLoaded' = (shaLoaded /\ left.dir /\ left.sha = shaFile)
    /\ finalStage' = left.final

\* lines 333-335: shutil.rmtree(tmp_dir, ignore_errors=True), whose failures
\* are neither raised nor logged
Finally ==
    /\ pc = "finally"
    /\ \E left \in RmtreeTmp : RemoveTmp(left)
    /\ pc' = "return"
    /\ UNCHANGED <<result, outcome, runs, now, fsVars, inputVars, swapVars,
                   snapVars, error, auxVars>>

\* lines 357-370: run_update has returned to main (or raised through it), its
\* frame is gone and the process exits.  tmpVars describe the tmp_dir of the
\* run in progress: what a run left of its tmp_dir stays on the disk under a
\* name no later run looks at or is given by mkdtemp
Return ==
    /\ pc = "return"
    /\ pc' = "idle"
    /\ result' = "none"
    /\ outcome' = "none"
    /\ release' = NoRelease
    /\ vdata' = EmptyObj
    /\ allow_downgrade' = FALSE
    /\ dry_run' = FALSE
    /\ restart_cmd' = FALSE
    /\ swap_backup' = NoBackup
    /\ backup_dir' = NoBackup
    /\ swapped' = FALSE
    /\ fallback' = FALSE
    /\ error' = NoError
    /\ app0' = appDir
    /\ prev' = IF result = "True"
               THEN [installed |-> TRUE, release |-> release,
                     allow_downgrade |-> allow_downgrade]
               ELSE NoPrev
    /\ tmpDir' = FALSE
    /\ zipFile' = NoZip
    /\ shaFile' = <<>>
    /\ shaLoaded' = FALSE
    /\ finalStage' = Absent
    /\ UNCHANGED <<runs, now, fsVars, auxVars>>

Next ==
    \/ Start
    \/ Download
    \/ Verify
    \/ Extract
    \/ SafeSwapBackup
    \/ SafeSwapRename
    \/ FallbackBackup
    \/ FallbackMove
    \/ Persist
    \/ CleanBackup
    \/ Restart
    \/ Finally
    \/ Return

Spec == Init /\ [][Next]_vars

TypeOK ==
    /\ appDir \in Contents
    /\ finalStage \in Contents
    /\ backups \in [Times -> Contents]
    /\ nested \in [Times -> Contents]
    /\ result \in {"none", "True", "False", "raised"}
    /\ now \in Times
    /\ runs \in 0..MaxRuns
    /\ fallback \in BOOLEAN
    /\ error.kind \in {"none", "FileNotFoundError", "HTTPError", "OSError",
                       "PermissionError"}

\* ---------------------------------------------------------------- properties
Returned == pc = "return"

\* the record of the version file after a write of this run
WrittenFile == JsonFile(NewVdata(vdata, TagOf(release)))

\* exits of the try block before the swap begins
PreSwapFailures ==
    {"download_error", "digest_format", "digest_mismatch", "bad_archive", "stage_error"}

\* positions of the run from the call of safe_swap to the return statement
SwapOnward ==
    {"swap", "swap_rename", "fallback", "fallback_move", "persist", "clean", "restart"}

BackupCount == Cardinality({t \in Times : backups[t] # Absent})

\* C1: the version file changes only in the step that follows a completed
\* swap (the staged tree is at app_dir), and a run that failed while
\* downloading, verifying, extracting or swapping ends with the version file
\* as it read it.
C1_WriteOnlyAfterSwap ==
    /\ [][versionFile' # versionFile =>
            /\ pc = "persist"
            /\ swapped
            /\ appDir = release.content
            /\ outcome = "proceed"]_vars
    /\ [](pc \in {"finally", "return"}
            /\ outcome \in PreSwapFailures \cup {"swap_error"}
          => read_json(versionFile) = vdata)

C1_Witness ==
    /\ pc = "clean"
    /\ versionFile = WrittenFile
    /\ versionFile # JsonFile(vdata)
    /\ appDir = release.content

\* C2: when a run has returned, the version file holds the release's
\* version as written by this run if and only if this run put the release's
\* content at app_dir.
C2_VersionIffSwapped ==
    (Returned /\ release # NoRelease)
        => ((versionFile = WrittenFile /\ read_json(versionFile) # vdata)
               <=> (swapped /\ appDir = release.content))

\* C3: a run whose swap failed returns with app_dir holding the content it had
\* when the run began.
C3_SwapFailureRestores ==
    (Returned /\ outcome = "swap_error" /\ app0 # Absent) => appDir = app0

BeforeSwap == pc \in {"idle", "download", "verify", "extract"}

AfterPreSwapFailure == pc \in {"finally", "return"} /\ outcome \in PreSwapFailures

\* C4: no step of a run that fails while downloading, verifying or staging
\* changes app_dir, the version file or the backups, and such a run returns
\* False with app_dir as it was when the run began.
C4_PreSwapFailureFrame ==
    /\ [][(BeforeSwap \/ AfterPreSwapFailure) => fsVars' = fsVars]_vars
    /\ [](pc \in {"finally", "return"} /\ outcome \in PreSwapFailures
          => /\ result = "False"
             /\ appDir = app0
             /\ read_json(versionFile) = vdata
             /\ ~swapped)

C4_Witness ==
    /\ Returned
    /\ outcome = "stage_error"
    /\ result = "False"
    /\ appDir = app0
    /\ app0 = "c0"

\* C5: when the release lists the digest companion, the run is at or past the
\* swap only if the first 64-hex token of the downloaded descriptor equals the
\* digest of the downloaded artifact; a mismatch or a descriptor without such
\* a token ends the run with False, app_dir as it was and tmp_dir removed.
C5_VerifiedBeforeSwap ==
    /\ pc \in SwapOnward /\ find_asset(release, ShaName)
         => /\ shaLoaded
            /\ FirstHex(shaFile) # 0
            /\ shaFile[FirstHex(shaFile)].digest = zipFile.digest
    /\ Returned /\ outcome \in {"digest_mismatch", "digest_format"}
         => result = "False" /\ appDir = app0 /\ ~swapped /\ ~tmpDir

\* the companion is listed, the run has swapped the release in, and no
\* descriptor was downloaded or compared
C5_UnverifiedSwap ==
    /\ pc = "persist"
    /\ find_asset(release, ShaName)
    /\ ~shaLoaded
    /\ appDir = release.content

\* a digest mismatch has ended the run and tmp_dir is still there
C5_MismatchStagingLeft ==
    /\ Returned
    /\ outcome = "digest_mismatch"
    /\ tmpDir
    /\ zipFile # NoZip

\* C6: when a run has returned, tmp_dir and everything in it is gone.
C6_NoStagingLeft ==
    Returned => ~tmpDir /\ zipFile = NoZip /\ finalStage = Absent /\ ~shaLoaded

\* a run has returned True and its tmp_dir is still there with the archive
C6_StagingLeft ==
    /\ Returned
    /\ result = "True"
    /\ tmpDir
    /\ zipFile # NoZip

\* C7: the result is True only when this run swapped the staged tree in and
\* wrote the version file; the exits "no release", "up to date", "remote
\* older", "dry run" and every failure inside the try block give False.
C7_TrueOnlyAfterSwapAndWrite ==
    Returned =>
        /\ result = "True" => swapped /\ appDir = release.content
                                      /\ versionFile = WrittenFile
        /\ outcome \in {"no_release", "uptodate", "older", "dry_run"}
                       \cup PreSwapFailures
                       \cup {"swap_error", "persist_error", "restart_error"}
             => result = "False"
        /\ result = "True" <=> outcome = "installed"

C7_Witness ==
    /\ Returned
    /\ result = "True"
    /\ swapped
    /\ versionFile = WrittenFile

\* C8: when a run has returned True, no backup directory exists.
C8_NoBackupAfterInstall ==
    (Returned /\ result = "True") => BackupCount = 0

\* C9: at most one backup directory exists at any time.
C9_AtMostOneBackup == BackupCount <= 1

\* C10 as stated: given an answer of the releases endpoint, the run returns
\* False without a temporary directory exactly when there is no candidate, the
\* candidate equals the local version, or it is older and allow_downgrade is
\* off; in every other case the run goes on to download.
C10_SkipExactlyWhen ==
    (pc # "idle" /\ outcome # "api_error") =>
        LET cmp == compare_versions(TagOf(release), CurrentVersion(vdata))
            cond == \/ release = NoRelease
                    \/ cmp = 0
                    \/ cmp < 0 /\ ~allow_downgrade
        IN  IF cond
            THEN pc = "return" /\ result = "False" /\ ~tmpDir
            ELSE outcome \notin {"no_release", "uptodate", "older",
                                 "asset_missing", "dry_run"}

\* C10 amended: given an answer of the releases endpoint, the run returns
\* False before asset resolution exactly when there is no candidate, the
\* candidate equals the local version, or it is older and allow_downgrade is
\* off; in every other case it resolves the asset, and goes on to download
\* unless the asset is missing (it raises), dry_run is set (it returns False)
\* or the temporary directory cannot be made (it raises); none of this
\* changes app_dir, the version file or the backups.
C10_SkipExactlyWhenAmended ==
    /\ [](pc # "idle" /\ outcome # "api_error" =>
            LET cmp == compare_versions(TagOf(release), CurrentVersion(vdata))
                cond == \/ release = NoRelease
                        \/ cmp = 0
                        \/ cmp < 0 /\ ~allow_downgrade
                missing == AssetName \notin release.assets
            IN  /\ cond <=> outcome \in {"no_release", "uptodate", "older"}
                /\ cond => pc = "return" /\ result = "False" /\ ~tmpDir
                /\ ~cond /\ missing
                     => outcome = "asset_missing" /\ result = "raised" /\ ~tmpDir
                /\ ~cond /\ ~missing /\ dry_run
                     => outcome = "dry_run" /\ result = "False" /\ ~tmpDir
                /\ ~cond /\ ~missing /\ ~dry_run
                     => IF outcome = "mkdtemp_error"
                        THEN pc = "return" /\ result = "raised" /\ ~tmpDir
                        ELSE outcome \notin {"no_release", "uptodate", "older",
                                             "asset_missing", "dry_run"})
    /\ [][pc = "idle" => fsVars' = fsVars]_vars

C10_Witness ==
    /\ Returned
    /\ outcome = "older"
    /\ ~allow_downgrade
    /\ compare_versions(TagOf(release), CurrentVersion(vdata)) < 0
    /\ result = "False"

\* C11: a run with dry_run set goes from its start straight to its return:
\* it creates no staging directory, downloads nothing, leaves the application
\* directory, the version file and the backups as they were, does not report
\* an installation, and when the release is newer and has the asset it ends
\* with the dry-run outcome.
C11_DryRunFrame ==
    /\ [](dry_run =>
            /\ pc = "return"
            /\ result \in {"False", "raised"}
            /\ ~tmpDir /\ zipFile = NoZip /\ ~shaLoaded /\ finalStage = Absent
            /\ ~swapped
            /\ (SkipReason(release, vdata, allow_downgrade) = "newer"
                    /\ find_asset(release, AssetName)
                 => outcome = "dry_run" /\ result = "False"))
    /\ [][dry_run' => fsVars' = fsVars]_vars

C11_Witness ==
    /\ Returned /\ dry_run /\ outcome = "dry_run"
    /\ HasShaUrl(release) /\ appDir # Absent /\ versionFile # NoFile

\* C12: when the chosen newer release lists no asset of the expected name,
\* the run ends with FileNotFoundError, whose message names the expected asset
\* and the names of all assets of the release; it is raised before the
\* staging directory is made, before any download, and with the application
\* directory, the version file and the backups untouched; no installation is
\* reported.
C12_AssetMissingError ==
    /\ [](outcome = "asset_missing" =>
            /\ pc = "return"
            /\ result = "raised"
            /\ error.kind = "FileNotFoundError"
            /\ error.asset = AssetName
            /\ error.names = release.assets
            /\ ~tmpDir /\ zipFile = NoZip /\ ~shaLoaded /\ finalStage = Absent
            /\ ~swapped)
    /\ [](Returned /\ outcome # "api_error"
             /\ SkipReason(release, vdata, allow_downgrade) = "newer"
             /\ AssetName \notin release.assets
          => outcome = "asset_missing")
    /\ [][outcome' = "asset_missing" => fsVars' = fsVars]_vars

C12_Witness ==
    /\ Returned /\ outcome = "asset_missing"
    /\ error.names = {OtherName} /\ appDir # Absent

\* ------------------------------------------------------ rollback_from_backup
\* no run of run_update is under way: its locals hold nothing and no staging
\* directory exists
NoRun ==
    /\ pc = "idle"
    /\ result = "none"
    /\ outcome = "none"
    /\ runs = 0
    /\ now = 0
    /\ tmpDir = FALSE
    /\ zipFile = NoZip
    /\ shaFile = <<>>
    /\ shaLoaded = FALSE
    /\ finalStage = Absent
    /\ release = NoRelease
    /\ vdata = EmptyObj
    /\ allow_downgrade = FALSE
    /\ dry_run = FALSE
    /\ restart_cmd = FALSE
    /\ swap_backup = NoBackup
    /\ backup_dir = NoBackup
    /\ swapped = FALSE
    /\ app0 = Absent
    /\ prev = NoPrev
    /\ error = NoError
    /\ fallback = FALSE

runVars == <<pc, result, outcome, runs, now, tmpVars, inputVars, swapVars,
             snapVars, error>>

\* lines 189-193: app_dir is removed when it exists, as far as
\* shutil.rmtree(app_dir, ignore_errors=True) can remove it, whether or not
\* there is a backup; then the backup, when it exists, is renamed to app_dir.
\* os.rename raises OSError when a non-empty app_dir is still there, and it
\* may raise when the backup directory cannot be renamed.
rollback_from_backup(b) ==
    \E left \in RmtreeIgnoreErrors(appDir) : \E renamed \in BOOLEAN :
        IF backups[b] # Absent /\ left = Absent /\ renamed
        THEN /\ appDir' = backups[b]
             /\ backups' = [backups EXCEPT ![b] = Absent]
             /\ call' = [fn |-> "rollback_from_backup", backup_dir |-> b, raised |-> FALSE]
        ELSE /\ appDir' = left
             /\ backups' = backups
             /\ call' = [fn |-> "rollback_from_backup", backup_dir |-> b,
                         raised |-> (backups[b] # Absent)]

InitRollback ==
    /\ NoRun
    /\ appDir \in Contents
    /\ versionFile \in InitVersionFiles
    /\ backups \in [Times -> Contents]
    /\ nested = [t \in Times |-> Absent]
    /\ call = NoCall
    /\ NoGui

Rollback ==
    /\ \E b \in Times : rollback_from_backup(b)
    /\ UNCHANGED <<runVars, versionFile, nested, guiVars>>

NextRollback == Rollback

SpecRollback == InitRollback /\ [][NextRollback]_vars

\* C13: a call of rollback_from_backup whose backup directory does not exist
\* leaves the application directory and the backups as they are (so that any
\* number of such calls gives the same state).
C13_RollbackWithoutBackupIsNoOp ==
    [][(call'.fn = "rollback_from_backup" /\ backups[call'.backup_dir] = Absent)
         => (appDir' = appDir /\ backups' = backups)]_vars

\* -------------------------------------------------------- get_latest_release
MaxFeed == 3

\* releases an answer of the endpoint is made of
ReleasePool == {R120, Rv130, R200d, R14b, R120na, Rjunk}

RECURSIVE SeqsUpTo(_, _)
SeqsUpTo(S, n) ==
    IF n = 0 THEN {<<>>}
    ELSE LET shorter == SeqsUpTo(S, n - 1)
         IN  shorter \cup {Append(q, x) : q \in {r \in shorter : Len(r) = n - 1}, x \in S}

InitLatest ==
    /\ NoRun
    /\ NoGui
    /\ appDir = Absent
    /\ versionFile = NoFile
    /\ backups = [t \in Times |-> Absent]
    /\ nested = [t \in Times |-> Absent]
    /\ call \in [fn : {"http_get_json"}, releases : SeqsUpTo(ReleasePool, MaxFeed),
                 include_prereleases : BOOLEAN]

\* lines 154-164 applied to the answer of http_get_json
Latest ==
    /\ call.fn = "http_get_json"
    /\ call' = [fn |-> "get_latest_release", releases |-> call.releases,
                include_prereleases |-> call.include_prereleases,
                ret |-> get_latest_release(call.releases, call.include_prereleases)]
    /\ UNCHANGED <<runVars, fsVars, guiVars>>

NextLatest == Latest

SpecLatest == InitLatest /\ [][NextLatest]_vars

\* the releases that are no draft and, unless prereleases are asked for, no
\* prerelease
Survivors(releases, include_prereleases) ==
    {releases[i] : i \in {j \in DOMAIN releases :
        /\ ~releases[j].draft
        /\ (include_prereleases \/ ~releases[j].prerelease)}}

Reversed(q) == [i \in 1..Len(q) |-> q[Len(q) + 1 - i]]

\* C14: get_latest_release returns None exactly when no release survives the
\* filtering; otherwise it returns a surviving release (hence no draft, and no
\* prerelease unless include_prereleases is set) whose parsed tag no
\* surviving release exceeds, and the version it returns is the same for the
\* list in reverse order.
C14_LatestIsMaximalSurvivor ==
    call.fn = "get_latest_release" =>
        LET surv == Survivors(call.releases, call.include_prereleases)
        IN  /\ (surv = {}) <=> (call.ret = NoRelease)
            /\ surv # {} =>
                /\ call.ret \in surv
                /\ ~call.ret.draft
                /\ call.ret.prerelease => call.include_prereleases
                /\ \A r \in surv :
                      ~TupleLess(parse_semver(call.ret.tag_name), parse_semver(r.tag_name))
                /\ parse_semver(call.ret.tag_name) =
                      parse_semver(get_latest_release(Reversed(call.releases),
                                       call.include_prereleases).tag_name)

C14_Witness ==
    /\ call.fn = "get_latest_release"
    /\ call.releases = <<R120, R200d, R14b>>
    /\ call.ret = R120

\* ------------------------------------------- parse_semver, compare_versions
MaxStr == 5

\* characters the checked version strings are made of
VersionChars == {"v", "0", "1", ".", "-"}

\* strings with characters outside VersionChars
VersionSamples ==
    { T120, Tv130, T14b, Tjunk, T000,
      <<"1", ".", "2", "\n">>,
      <<"1", ".", "2", ".", "3", "\n">>,
      <<"1", ".", "2", "-", "\n", "x">>,
      <<"1", ".", "2", "+", "b", "\n">>,
      <<"1", ".", "2", ".", "3", ".", "4">>,
      <<"V", "1", ".", "2", ".", "3">>,
      <<"1", "0", ".", "0", ".", "9">> }

VersionStrings == SeqsUpTo(VersionChars, MaxStr) \cup VersionSamples

\* a run of n digits "1"
Ones(n) == [i \in 1..n |-> "1"]

\* strings with a digit run one digit beyond the limit of int(): as a
\* component of a version of two or of three components, and in places where
\* neither pattern gives it to int()
LongStrings ==
    { Ones(IntMaxStrDigits + 1) \o <<".", "0">>,
      <<"1", ".">> \o Ones(IntMaxStrDigits + 1),
      <<"v", "1", ".", "2", ".">> \o Ones(IntMaxStrDigits + 1) \o <<"-", "b">>,
      Ones(IntMaxStrDigits + 1),
      <<"1", ".", "2", "-">> \o Ones(IntMaxStrDigits + 1) }

InitVersions ==
    /\ NoRun
    /\ NoGui
    /\ appDir = Absent
    /\ versionFile = NoFile
    /\ backups = [t \in Times |-> Absent]
    /\ nested = [t \in Times |-> Absent]
    /\ call \in [fn : {"versions"}, a : VersionStrings, b : VersionSamples]
                \cup [fn : {"tag"}, a : LongStrings, b : {T000}]

\* lines 86-89 applied to a and b, to b and a, and to a and a
Compare ==
    /\ call.fn = "versions"
    /\ call' = [fn |-> "compare_versions", a |-> call.a, b |-> call.b,
                ab |-> compare_versions(call.a, call.b),
                ba |-> compare_versions(call.b, call.a),
                aa |-> compare_versions(call.a, call.a)]
    /\ UNCHANGED <<runVars, fsVars, guiVars>>

\* lines 71-84 applied to a, to "v" + a and to a + ".0"
Parse ==
    /\ call.fn \in {"versions", "tag"}
    /\ call' = [fn |-> "parse_semver", a |-> call.a,
                ret |-> parse_semver(call.a),
                ret_v |-> parse_semver(<<"v">> \o call.a),
                ret_0 |-> parse_semver(call.a \o <<".", "0">>)]
    /\ UNCHANGED <<runVars, fsVars, guiVars>>

NextVersions == Compare \/ Parse

SpecVersions == InitVersions /\ [][NextVersions]_vars

TwoComponents(s) ==
    \E d \in 2..(Len(s) - 1) :
        /\ s[d] = "."
        /\ \A i \in (1..Len(s)) \ {d} : IsDigit(s[i])

ParsedTriples == (Nat \X Nat \X Nat) \cup {NonSemver}

\* what C16 says of the value of parse_semver apart from the leading "v"
ParseTotalAndLowest ==
    /\ call.fn = "parse_semver" =>
        /\ call.ret # ValueError
        /\ call.ret \in ParsedTriples
        /\ TwoComponents(call.a) =>
              call.ret # NonSemver /\ call.ret[3] = 0 /\ call.ret = call.ret_0
        /\ call.ret = NonSemver => TupleLess(call.ret, parse_semver(T000))
        /\ call.ret # NonSemver => TupleLess(NonSemver, call.ret)
    /\ call.fn = "compare_versions" =>
          (parse_semver(call.a) # NonSemver /\ parse_semver(call.b) = NonSemver
             => call.ab = 1)

\* C16 as stated: parse_semver returns a triple for every string, "v" + a
\* parses to what a parses to, X.Y parses as X.Y.0, an unparseable string
\* parses strictly below 0.0.0 and below every parseable one, and a parseable
\* tag compares greater than an unparseable local version.
C16_ParseSemver ==
    /\ ParseTotalAndLowest
    /\ call.fn = "parse_semver" => call.ret_v = call.ret

\* a state in which int() has refused a component of the tag given
C16_ValueErrorRaised ==
    /\ call.fn = "parse_semver"
    /\ call.a = <<"1", ".">> \o Ones(IntMaxStrDigits + 1)
    /\ call.ret = ValueError

\* the string of k letters "v"
Vs(k) == [i \in 1..k |-> "v"]

\* C17: when a run has returned True, the version read back from the version
\* file is the tag of the installed release without its leading "v"s, and
\* every member the file had when the run read it, other than version, is
\* still there with its value.
C17_VersionRoundTrip ==
    Returned /\ result = "True" =>
        LET after == read_json(versionFile)
            tag   == TagOf(release)
        IN  /\ versionFile.exists
            /\ HasKey(after, "version")
            /\ \E k \in 0..Len(tag) : tag = Vs(k) \o Get(after, "version")
            /\ Get(after, "version") = <<>> \/ Get(after, "version")[1] # "v"
            /\ \A m \in vdata : m[1] # "version" => m \in after
            /\ \A m \in after : m[1] # "version" => m \in vdata
            /\ Cardinality({m \in after : m[1] = "version"}) = 1

C17_Witness ==
    /\ Returned /\ result = "True"
    /\ Member("channel", Channel) \in vdata
    /\ Member("version", T100) \in vdata
    /\ release.tag_name = Tv130
    /\ read_json(versionFile) =
          {Member("channel", Channel), Member("version", <<"1", ".", "3", ".", "0">>)}

\* -------------------------------------------------- verify_sha256_from_file
MaxTokens == 3

\* words a descriptor is made of
Words ==
    { Text, ShortHex,
      Hex(GoodDigest, FALSE), Hex(GoodDigest, TRUE),
      Hex(BadDigest, FALSE), Hex(BadDigest, TRUE),
      LongHex(GoodDigest, FALSE) }

InitVerify ==
    /\ NoRun
    /\ NoGui
    /\ appDir = Absent
    /\ versionFile = NoFile
    /\ backups = [t \in Times |-> Absent]
    /\ nested = [t \in Times |-> Absent]
    /\ call \in [fn : {"files"}, sha_file : SeqsUpTo(Words, MaxTokens),
                 asset_file : [digest : {GoodDigest, BadDigest}, valid : {TRUE},
                               content : {"cA"}]]

\* lines 129-144 applied to a descriptor and an artifact
VerifyCall ==
    /\ call.fn = "files"
    /\ call' = [fn |-> "verify_sha256_from_file", sha_file |-> call.sha_file,
                asset_file |-> call.asset_file,
                ret |-> verify_sha256_from_file(call.sha_file, call.asset_file),
                err |-> VerifyError(call.sha_file, call.asset_file)]
    /\ UNCHANGED <<runVars, fsVars, guiVars>>

NextVerify == VerifyCall

SpecVerify == InitVerify /\ [][NextVerify]_vars

\* the descriptor holds the digest d somewhere, in either case
HoldsDigest(txt, d) == \E i \in 1..Len(txt) : d \in txt[i].holds

\* the descriptor has a run of 64 hex characters
Has64Hex(txt) == \E i \in 1..Len(txt) : txt[i].kind = "hex64"

\* C18 as stated: the verification succeeds whenever the descriptor holds the
\* artifact's digest, whatever surrounds it; it fails with a mismatch error
\* carrying the expected and the actual digest when the descriptor has 64-hex
\* tokens but not the artifact's digest; it fails with a format error when
\* the descriptor has no 64-hex token.
C18_VerifyAnyDescriptor ==
    call.fn = "verify_sha256_from_file" =>
        LET D == call.asset_file.digest
        IN  /\ HoldsDigest(call.sha_file, D) => call.ret = "ok"
            /\ Has64Hex(call.sha_file) /\ ~HoldsDigest(call.sha_file, D) =>
                  /\ call.ret = "mismatch"
                  /\ call.err.msg = "SHA-256 mismatch"
                  /\ call.err.actual = HexString(D, FALSE)
                  /\ call.err.expected.digest # D
            /\ ~Has64Hex(call.sha_file) =>
                  /\ call.ret = "format"
                  /\ call.err.msg = "Invalid sha256 file format"

\* C18, amended: only the first run of 64 hex characters counts.  The
\* verification succeeds exactly when that run spells the artifact's digest,
\* in upper or lower case; when it spells something else the mismatch error
\* carries it (in lower case) as expected and the artifact's digest as actual,
\* even if the artifact's digest occurs later in the descriptor; without any
\* such run the error is the format error.
C18_VerifyFirstToken ==
    call.fn = "verify_sha256_from_file" =>
        LET D   == call.asset_file.digest
            txt == call.sha_file
            firsts == {i \in 1..Len(txt) :
                          /\ txt[i].kind = "hex64"
                          /\ \A j \in 1..(i - 1) : txt[j].kind # "hex64"}
        IN  /\ \A i \in firsts :
                  IF txt[i].digest = D
                  THEN call.ret = "ok" /\ call.err.kind = "none"
                  ELSE /\ call.ret = "mismatch"
                       /\ call.err.msg = "SHA-256 mismatch"
                       /\ call.err.expected = HexString(txt[i].digest, FALSE)
                       /\ call.err.actual = HexString(D, FALSE)
            /\ firsts = {} =>
                  /\ call.ret = "format"
                  /\ call.err.msg = "Invalid sha256 file format"

C18_Witness ==
    /\ call.fn = "verify_sha256_from_file"
    /\ call.sha_file = <<Text, Hex(GoodDigest, TRUE), Hex(BadDigest, FALSE)>>
    /\ call.asset_file.digest = GoodDigest
    /\ call.ret = "ok"

\* the handler of OSError was entered and both of its moves went through
FallbackSucceeded == fallback /\ swapped

\* what C20 says of the directories once the fallback has succeeded: app_dir
\* holds the content of the release, and until the version file is written
\* the content that app_dir had when the run began is in a backup directory
\* (as the directory itself, or under app_dir's base name when shutil.move
\* found a directory of the backup's name)
FallbackDirectories ==
    /\ FallbackSucceeded =>
          /\ pc \in {"persist", "clean", "restart", "finally", "return"}
          /\ appDir = release.content
    /\ FallbackSucceeded /\ pc = "persist" /\ app0 # Absent =>
          \E t \in Times : backups[t] = app0 \/ nested[t] = app0

\* C20 as stated: when a rename of safe_swap raises OSError and the moves of
\* the fallback succeed, app_dir holds the release's content, the previous
\* content is in a backup until the version file is written, and the run
\* returns True.
C20_FallbackInstalls ==
    /\ FallbackDirectories
    /\ Returned /\ FallbackSucceeded => result = "True"

\* C20, amended: as above, and the run returns True when the write of the
\* version file and the relaunch, if one is asked for, succeed as well; when
\* one of them fails the run returns False with the release's content in
\* app_dir.
C20_FallbackInstallsAmended ==
    /\ FallbackDirectories
    /\ Returned /\ FallbackSucceeded =>
          /\ outcome \in {"installed", "persist_error", "restart_error"}
          /\ (result = "True") <=> (outcome = "installed")
          /\ outcome # "persist_error" => versionFile = WrittenFile
          /\ outcome = "restart_error" => restart_cmd

C20_Witness ==
    /\ Returned /\ FallbackSucceeded /\ result = "True"
    /\ app0 = "c0" /\ appDir = "cB"
    /\ backup_dir # NoBackup

\* ---------------------------------------------------------------- UpdaterUI
\* (src/updater_gui.py)  The claims range over every sequence of Check,
\* Install, Cancel and Close, so the handlers are taken to be callable
\* whatever the state of their buttons; updater.py is where _cmd looks for it.
Line(kind, i, n) == <<kind, i, n>>

\* number of lines the Tk thread itself has produced
GuiLines ==
    Len(SelectSeq(logText \o stdout_q, LAMBDA l : l[1] \notin {"out", "exit"}))

Unborn == {i \in Procs : procState[i] = "unborn"}

\* the subprocesses that have been started and have not exited
LiveProcs == {i \in Procs : procState[i] \in {"alive", "signalled"}}

\* subprocess.Popen returns the next subprocess and line 145 starts its reader
Popen(dry) ==
    LET i == CHOOSE j \in Unborn : \A k \in Unborn : j <= k
    IN  /\ proc' = i
        /\ procState' = [procState EXCEPT ![i] = "alive"]
        /\ reader' = [reader EXCEPT ![i] = "reading"]
        /\ relaunch' = [relaunch EXCEPT ![i] = IF dry THEN "none" ELSE "due"]

\* mutant: _start does not look at self.running
GuiStart_NoGuard(dry) ==
    /\ busy' = TRUE
    /\ \/ /\ Unborn # {}
          /\ running' = TRUE
          /\ Popen(dry)
          /\ UNCHANGED stdout_q
       \/ /\ stdout_q' = Append(stdout_q, Line("failed", 0, 0))
          /\ running' = FALSE
          /\ UNCHANGED <<proc, procState, reader, relaunch>>

\* lines 194-202 and 122-146: _start and the _run_subprocess it calls
GuiStart(dry) ==
    IF running
    THEN UNCHANGED <<running, busy, proc, procState, reader, relaunch, stdout_q>>
    ELSE /\ busy' = TRUE
         /\ \/ /\ Unborn # {}
               /\ running' = TRUE
               /\ Popen(dry)
               /\ UNCHANGED stdout_q
            \/ /\ stdout_q' = Append(stdout_q, Line("failed", 0, 0))
               /\ running' = FALSE       \* Popen raises, lines 133-136
               /\ UNCHANGED <<proc, procState, reader, relaunch>>

\* the Tk thread is free to run a handler
TkIdle == window = "open" /\ guiPc = "idle"

\* lines 164-168
OnCheck ==
    /\ TkIdle
    /\ GuiLines < MaxLog
    /\ logText' = Append(logText, Line("checking", 0, 0))
    /\ GuiStart(TRUE)
    /\ UNCHANGED <<window, guiPc, pipe, written, timers, runVars, fsVars, call>>

\* lines 170-178, the user answering yes (a no changes nothing)
OnInstall ==
    /\ TkIdle
    /\ GuiLines < MaxLog
    /\ logText' = Append(logText, Line("installing", 0, 0))
    /\ GuiStart(FALSE)
    /\ UNCHANGED <<window, guiPc, pipe, written, timers, runVars, fsVars, call>>

\* lines 180-184: terminate() when poll() is None
OnCancel ==
    /\ TkIdle
    /\ GuiLines < MaxLog
    /\ procState' = IF proc # 0 /\ procState[proc] \in {"alive", "signalled"}
                    THEN [procState EXCEPT ![proc] = "signalled"]
                    ELSE procState
    /\ logText' = Append(logText, Line("cancel", 0, 0))
    /\ UNCHANGED <<running, busy, window, guiPc, proc, pipe, written, reader, relaunch,
                   stdout_q, timers, runVars, fsVars, call>>

\* lines 186-192, the user confirming when the subprocess still runs: the
\* window is destroyed and its callbacks with it; the subprocess and the
\* reader thread go on
OnClose ==
    /\ TkIdle
    /\ window' = "destroyed"
    /\ timers' = 0
    /\ UNCHANGED <<running, busy, guiPc, proc, procState, pipe, written, reader, relaunch,
                   stdout_q, logText, runVars, fsVars, call>>

\* lines 149-155: a pending callback fires and empties the queue into the log
PumpStdout ==
    /\ TkIdle
    /\ timers > 0
    /\ timers < MaxTimers
    /\ timers' = timers - 1
    /\ logText' = logText \o stdout_q
    /\ stdout_q' = <<>>
    /\ guiPc' = "pump_finally"
    /\ UNCHANGED <<running, busy, window, proc, procState, pipe, written, reader, relaunch,
                   runVars, fsVars, call>>

\* lines 156-162: the finally block reads self.running, then line 162
\* schedules one more callback in either case
PumpFinally ==
    /\ window = "open"
    /\ guiPc = "pump_finally"
    /\ IF running
       THEN timers' = timers + 2 /\ UNCHANGED busy
       ELSE timers' = timers + 1 /\ busy' = FALSE
    /\ guiPc' = "idle"
    /\ UNCHANGED <<running, window, proc, procState, pipe, written, reader, relaunch,
                   stdout_q, logText, runVars, fsVars, call>>

\* the subprocess prints a line
ProcWrite(i) ==
    /\ procState[i] = "alive"
    /\ written[i] < MaxLines
    /\ written' = [written EXCEPT ![i] = @ + 1]
    /\ pipe' = [pipe EXCEPT ![i] = Append(@, Line("out", i, written[i] + 1))]
    /\ UNCHANGED <<running, busy, window, guiPc, proc, procState, reader, relaunch,
                   stdout_q, logText, timers, runVars, fsVars, call>>

\* updater.py lines 316-324, in a subprocess that Install started with a
\* restart command: the relaunched application inherits the standard output
\* of the updater, which is the pipe
ProcRelaunch(i) ==
    /\ procState[i] = "alive"
    /\ relaunch[i] = "due"
    /\ relaunch' = [relaunch EXCEPT ![i] = "open"]
    /\ UNCHANGED <<running, busy, window, guiPc, proc, procState, pipe, written,
                   reader, stdout_q, logText, timers, runVars, fsVars, call>>

\* the relaunched application prints a line, whether or not the updater has
\* exited
AppWrite(i) ==
    /\ relaunch[i] = "open"
    /\ written[i] < MaxLines
    /\ written' = [written EXCEPT ![i] = @ + 1]
    /\ pipe' = [pipe EXCEPT ![i] = Append(@, Line("out", i, written[i] + 1))]
    /\ UNCHANGED <<running, busy, window, guiPc, proc, procState, reader,
                   relaunch, stdout_q, logText, timers, runVars, fsVars, call>>

\* the relaunched application exits or closes its standard output
AppClose(i) ==
    /\ relaunch[i] = "open"
    /\ relaunch' = [relaunch EXCEPT ![i] = "none"]
    /\ UNCHANGED <<running, busy, window, guiPc, proc, procState, pipe, written,
                   reader, stdout_q, logText, timers, runVars, fsVars, call>>

\* the subprocess exits, by itself or on the signal of terminate()
ProcExit(i) ==
    /\ procState[i] \in {"alive", "signalled"}
    /\ procState' = [procState EXCEPT ![i] = "exited"]
    /\ relaunch' = [relaunch EXCEPT ![i] = IF @ = "due" THEN "none" ELSE @]
    /\ UNCHANGED <<running, busy, window, guiPc, proc, pipe, written, reader,
                   stdout_q, logText, timers, runVars, fsVars, call>>

\* lines 139-140: the reader thread passes a line on
ReaderLine(i) ==
    /\ reader[i] = "reading"
    /\ pipe[i] # <<>>
    /\ stdout_q' = Append(stdout_q, Head(pipe[i]))
    /\ pipe' = [pipe EXCEPT ![i] = Tail(@)]
    /\ UNCHANGED <<running, busy, window, guiPc, proc, procState, written,
                   reader, relaunch, logText, timers, runVars, fsVars, call>>

\* line 139: end of file, the pipe is empty and nothing holds its write end:
\* the subprocess has exited and so has the application it relaunched
ReaderEof(i) ==
    /\ reader[i] = "reading"
    /\ pipe[i] = <<>>
    /\ procState[i] = "exited"
    /\ relaunch[i] # "open"
    /\ reader' = [reader EXCEPT ![i] = "waiting"]
    /\ UNCHANGED <<relaunch, running, busy, window, guiPc, proc, procState, pipe, written,
                   stdout_q, logText, timers, runVars, fsVars, call>>

\* lines 141-142: self.proc.wait() returns and the exit line is queued
ReaderWait(i) ==
    /\ reader[i] = "waiting"
    /\ procState[proc] = "exited"
    /\ stdout_q' = Append(stdout_q, Line("exit", proc, 0))
    /\ reader' = [reader EXCEPT ![i] = "finishing"]
    /\ UNCHANGED <<relaunch, running, busy, window, guiPc, proc, procState, pipe, written,
                   logText, timers, runVars, fsVars, call>>

\* line 143: self.running = False
ReaderFinish(i) ==
    /\ reader[i] = "finishing"
    /\ running' = FALSE
    /\ reader' = [reader EXCEPT ![i] = "done"]
    /\ UNCHANGED <<relaunch, busy, window, guiPc, proc, procState, pipe, written,
                   stdout_q, logText, timers, runVars, fsVars, call>>

InitGui ==
    /\ NoRun
    /\ NoGui
    /\ appDir = Absent
    /\ versionFile = NoFile
    /\ backups = [t \in Times |-> Absent]
    /\ nested = [t \in Times |-> Absent]
    /\ call = NoCall

NextGui ==
    \/ OnCheck
    \/ OnInstall
    \/ OnCancel
    \/ OnClose
    \/ PumpStdout
    \/ PumpFinally
    \/ \E i \in Procs : ProcWrite(i)
    \/ \E i \in Procs : ProcRelaunch(i)
    \/ \E i \in Procs : AppWrite(i)
    \/ \E i \in Procs : AppClose(i)
    \/ \E i \in Procs : ProcExit(i)
    \/ \E i \in Procs : ReaderLine(i)
    \/ \E i \in Procs : ReaderEof(i)
    \/ \E i \in Procs : ReaderWait(i)
    \/ \E i \in Procs : ReaderFinish(i)

SpecGui == InitGui /\ [][NextGui]_vars

GuiTypeOK ==
    /\ running \in BOOLEAN
    /\ busy \in BOOLEAN
    /\ window \in {"open", "destroyed"}
    /\ guiPc \in {"idle", "pump_finally"}
    /\ proc \in 0..MaxProcs
    /\ procState \in [Procs -> {"unborn", "alive", "signalled", "exited"}]
    /\ reader \in [Procs -> {"none", "reading", "waiting", "finishing", "done"}]
    /\ relaunch \in [Procs -> {"none", "due", "open"}]
    /\ written \in [Procs -> 0..MaxLines]
    /\ timers \in 0..(MaxTimers + 1)

\* C19: at no time are two updater subprocesses of one UpdaterUI running, and
\* a subprocess is started only when none is running: no subprocess was
\* started before, or the one self.proc refers to has exited.
C19_OneSubprocess ==
    /\ [](Cardinality(LiveProcs) <= 1)
    /\ [][\A i \in Procs :
            procState[i] = "unborn" /\ procState'[i] # "unborn" =>
                /\ LiveProcs = {}
                /\ proc = 0 \/ procState[proc] = "exited"
                /\ ~running]_vars

C19_Witness ==
    /\ procState[1] = "exited"
    /\ procState[2] = "alive"
    /\ proc = 2
    /\ running
    /\ reader[1] = "done"

\* ------------------------------------------------- termination of the updater
\* positions of a run between its first and its last statement inside the try
\* block, the finally block included
RunningPositions ==
    {"download", "verify", "extract", "swap", "swap_rename", "fallback",
     "fallback_move", "persist", "clean", "restart", "finally"}

\* the files and directories a run has reached when it is ended inside the
\* step that begins at its position: a download or a copy has written part of
\* its target, a removal has removed part of its tree, a copy of shutil.move
\* is complete and the removal of its source is not.  The renames and
\* os.replace happen at once, they are the steps themselves.
KilledInside ==
    \/ /\ pc = "download"                    \* http_download, lines 110-116
       /\ zipFile' = TruncatedZip
       /\ UNCHANGED <<now, appDir, backups, nested, shaFile, finalStage,
                    tmpDir, shaLoaded>>
    \/ /\ pc = "verify"
       /\ shaFile' = <<ShortHex>>
       /\ UNCHANGED <<now, appDir, backups, nested, zipFile, finalStage,
                    tmpDir, shaLoaded>>
    \/ /\ pc = "extract"                     \* copytree, line 287
       /\ zipFile.valid
       /\ finalStage' = Partial
       /\ UNCHANGED <<now, appDir, backups, nested, zipFile, shaFile,
                    tmpDir, shaLoaded>>
    \/ /\ pc = "swap"                        \* rmtree, line 183
       /\ \E t \in now..MaxTime : \E left \in RmtreeBackup(t) :
            /\ now' = t
            /\ backups' = [backups EXCEPT ![t] = left[1]]
            /\ nested' = [nested EXCEPT ![t] = left[2]]
       /\ UNCHANGED <<appDir, zipFile, shaFile, finalStage,
                    tmpDir, shaLoaded>>
    \/ /\ pc = "fallback"                    \* shutil.move, line 301
       /\ finalStage # Absent
       /\ appDir # Absent
       /\ \E t \in now..MaxTime : \E done \in BOOLEAN :
            LET copy == IF done THEN appDir ELSE Partial
            IN  /\ now' = t
                /\ appDir' \in IF done THEN {Partial, appDir} ELSE {appDir}
                /\ IF backups[t] = Absent
                   THEN /\ backups' = [backups EXCEPT ![t] = copy]
                        /\ UNCHANGED nested
                   ELSE /\ nested[t] = Absent
                        /\ nested' = [nested EXCEPT ![t] = copy]
                        /\ UNCHANGED backups
       /\ UNCHANGED <<zipFile, shaFile, finalStage,
                    tmpDir, shaLoaded>>
    \/ /\ pc = "fallback_move"               \* shutil.move, line 302
       /\ \/ /\ appDir' = Partial
             /\ UNCHANGED finalStage
          \/ /\ appDir' = finalStage
             /\ finalStage' \in {Partial, finalStage}
       /\ UNCHANGED <<now, backups, nested, zipFile, shaFile,
                    tmpDir, shaLoaded>>
    \/ /\ pc = "clean"                       \* rmtree, line 314
       /\ backup_dir # NoBackup
       /\ \E left \in RmtreeBackup(backup_dir) :
            /\ backups' = [backups EXCEPT ![backup_dir] = left[1]]
            /\ nested' = [nested EXCEPT ![backup_dir] = left[2]]
       /\ UNCHANGED <<now, appDir, zipFile, shaFile, finalStage,
                    tmpDir, shaLoaded>>
    \/ /\ pc = "finally"                     \* rmtree, line 335
       /\ \E left \in RmtreeTmp : RemoveTmp(left)
       /\ UNCHANGED <<now, appDir, backups, nested>>

\* updater_gui.py line 182, proc.terminate(): the updater process is ended by
\* SIGTERM wherever it is: before it has made tmp_dir (while it waits for the
\* release query, lines 211-252), between two of its steps, or inside one.
\* No handler and no finally block runs, run_update returns nothing, and the
\* files and directories stay as they are at that moment.
Kill ==
    /\ pc' = "killed"
    /\ outcome' = "killed"
    /\ result' = "none"
    /\ \/ /\ pc = "idle"
          /\ runs < MaxRuns
          /\ runs' = runs + 1
          /\ app0' = appDir
          /\ UNCHANGED <<now, appDir, backups, nested, tmpVars>>
       \/ /\ pc \in RunningPositions
          /\ UNCHANGED <<runs, app0>>
          /\ \/ UNCHANGED <<now, appDir, backups, nested, tmpVars>>
             \/ KilledInside
    /\ UNCHANGED <<versionFile, inputVars, swapVars, prev,
                   error, auxVars>>

NextKill == Next \/ Kill

SpecKill == Init /\ [][NextKill]_vars

\* a directory that holds a whole installation
Complete(dir) == dir \notin {Absent, Partial}

\* C21: when app_dir held a complete installation at the start of the run,
\* it holds at every point of the run, and after a termination of the updater
\* at any point, either that installation or the content of the release
\* being installed; it is never absent and never partially populated.
C21_LiveDirAlwaysComplete ==
    Complete(app0) =>
        /\ Complete(appDir)
        /\ appDir = app0 \/ (release # NoRelease /\ appDir = release.content)

\* the run that has just returned follows a run that returned True, found
\* the same release and has the same flags (a run that returned True was no
\* dry run)
RepeatsInstall ==
    /\ Returned
    /\ prev.installed
    /\ outcome # "api_error"
    /\ ~dry_run
    /\ release = prev.release
    /\ allow_downgrade = prev.allow_downgrade

\* C22: a run that follows a run which returned True, against the same feed
\* and with the same flags, finds the release not newer than the version the
\* first run wrote: it returns False before asset resolution and leaves the
\* application directory, the version file and the backups as they are.
C22_SecondRunInstallsNothing ==
    RepeatsInstall =>
        /\ outcome \in {"uptodate", "older"}
        /\ result = "False"
        /\ appDir = app0
        /\ compare_versions(TagOf(release), CurrentVersion(vdata)) = 0

\* the lines of subprocess i among those of the sequence q
LinesOf(q, i) == SelectSeq(q, LAMBDA l : l[1] = "out" /\ l[2] = i)

\* C23: while the window is open at most one callback of _pump_stdout is
\* pending, whether a subprocess runs or has exited; the lines a subprocess
\* wrote reach the log in the order in which it wrote them, none lost and
\* none twice, ahead of the line that reports its exit; and the buttons are
\* disabled only while an operation runs or its end has yet to be seen by the
\* pump.
C23_OnePumpPending ==
    /\ window = "open" => timers <= 1
    /\ \A i \in Procs :
          /\ LinesOf(logText \o stdout_q \o pipe[i], i) =
                [n \in 1..written[i] |-> Line("out", i, n)]
          /\ \A k \in 1..Len(logText) :
                logText[k] = Line("exit", i, 0) =>
                    LinesOf(logText, i) = LinesOf(SubSeq(logText, 1, k), i)
    /\ running => busy

====
